---- MODULE Spec2Model ----
(***************************************************************************)
(* Model of the STDIO-to-HTTP bridge src/bin/mcp-http-bridge.mjs: the     *)
(* session state, the line handler, makeRequest and reinitializeAndRetry. *)
(* One input line is one entry of `tasks`; the HTTP round trip of an       *)
(* attempt is two events, as in Node: the response callback (status and   *)
(* headers) and the 'end' event (the buffered body).                      *)
(***************************************************************************)
EXTENDS Integers, Sequences, FiniteSets, TLC

\* ------------------------------------------------------------------ bounds
MaxLines == 2        \* input lines read in one run
MaxNotFound == 2     \* 404 answers the upstream gives in one run
MaxReplyLines == 1   \* input lines read in a run of SpecReply
MaxBodyLen == 4      \* tokens of a response body in a run of SpecReply
MaxSessionLines == 3 \* input lines read in a run of SpecSession
MaxLegacyLines == 1  \* input lines read in a run of SpecLegacy
MaxRenewalLines == 3 \* input lines read in a run of SpecRenewal

\* ------------------------------------------------------- JavaScript values
Undefined == "undefined"
Null == "null"
IdZero == "num:0"
IdEmpty == "str:"
IdOne == "num:1"

\* JavaScript truthiness of the values the model uses (if (x), x || y)
Truthy(v) == v \notin {Undefined, Null, IdZero, IdEmpty, ""}

\* ---------------------------------------------------------- configuration
HeaderNames == {"Content-Type", "Authorization", "Content-Length", "Mcp-Session-Id", "Accept"}

NoHeaders == [h \in HeaderNames |-> Undefined]

\* the object spread { ...a, ...b }: keys of b win
Merge(a, b) == [h \in HeaderNames |-> IF b[h] # Undefined THEN b[h] ELSE a[h]]

With(a, name, value) == [a EXCEPT ![name] = value]

\* a parsed CUSTOM_HEADERS that overrides a default header and, as in the
\* README's legacy setup, carries a session id of its own
LegacyHeaders == With(With(NoHeaders, "Content-Type", "text/plain"), "Mcp-Session-Id", "custom-sid")

\* a parsed CUSTOM_HEADERS that overrides the Authorization default
BasicAuthHeaders == With(NoHeaders, "Authorization", "Basic abc")

\* MCP_ENDPOINT, MCP_BEARER_TOKEN, the parsed custom headers, MCP_DEBUG === 'true'
Environment(endpoint, token, custom, dbg) ==
    [ENDPOINT |-> endpoint, BEARER_TOKEN |-> token, customHeaders |-> custom, DEBUG |-> dbg]

Configs ==
    { Environment(Undefined, Undefined, NoHeaders, FALSE),
      Environment("not a url", Undefined, NoHeaders, FALSE),
      Environment("http://host/mcp", Undefined, NoHeaders, FALSE),
      Environment("http://host/mcp", "jwt", LegacyHeaders, FALSE) }

\* every combination of token, custom headers and debug flag
AllConfigs ==
    { Environment(e, t, c, d) :
        e \in {Undefined, "not a url", "http://host/mcp"}, t \in {Undefined, "jwt"},
        c \in {NoHeaders, LegacyHeaders, BasicAuthHeaders}, d \in BOOLEAN }

\* bug: the endpoint is used without new URL(ENDPOINT) being tried
UrlParsesAlways(e) == TRUE

\* new URL(ENDPOINT) throws on a string that is no absolute URL
UrlParses(e) == e # "not a url"

baseHeaders(cfg) ==
    LET h0 == With(NoHeaders, "Content-Type", "application/json")
    IN  IF Truthy(cfg.BEARER_TOKEN)
        THEN With(h0, "Authorization", "Bearer " \o cfg.BEARER_TOKEN)
        ELSE h0

\* bug: the spread is the other way round, { ...customHeaders, ...baseHeaders }
defaultHeadersBaseWins(cfg) == Merge(cfg.customHeaders, baseHeaders(cfg))

\* const defaultHeaders = { ...baseHeaders, ...customHeaders }
defaultHeaders(cfg) == Merge(baseHeaders(cfg), cfg.customHeaders)

\* ------------------------------------------------------------ input lines
Versions == {"2.0", "1.0"}
Methods == {Undefined, "initialize", "tools/call"}
Ids == {Undefined, Null, IdZero, IdOne}
AllIds == Ids \cup {IdEmpty}

\* kind: blank line, text that is no JSON, or the type of the JSON value.
\* A property read on a string, number, boolean or array yields undefined.
Lines ==
    [kind : {"blank", "text", "null", "scalar", "array"},
     jsonrpc : {Undefined}, method : {Undefined}, id : {Undefined}]
    \cup
    [kind : {"object"}, jsonrpc : Versions, method : Methods, id : Ids]

\* the same lines, with the empty string among the ids
AllLines == Lines \cup [kind : {"object"}, jsonrpc : Versions, method : Methods, id : AllIds]

\* the well-formed requests of a session: an initialize and calls with the two
\* falsy ids
SessionLines ==
    [kind : {"object"}, jsonrpc : {"2.0"}, method : {"initialize"}, id : {IdOne}]
    \cup
    [kind : {"object"}, jsonrpc : {"2.0"}, method : {"tools/call"}, id : {IdZero, IdEmpty}]

\* JSON.parse(line) throws SyntaxError
ParseThrows(l) == l.kind \in {"blank", "text"}

\* reading a property of null throws TypeError
ReadThrows(l) == l.kind = "null"

\* if (jsonRequest.id === undefined && jsonRequest.method)
IsNotification(l) == l.id = Undefined /\ Truthy(l.method)

\* bug: the id is tested for truthiness
IsRequestTruthyId(l) == Truthy(l.method) /\ Truthy(l.id)

\* if (jsonRequest.method && jsonRequest.id !== undefined && jsonRequest.id !== null)
IsRequest(l) == Truthy(l.method) /\ l.id # Undefined /\ l.id # Null

initRequest == [kind |-> "object", jsonrpc |-> "2.0", method |-> "initialize", id |-> IdZero]

\* ------------------------------------------------------ upstream answers
Statuses == {200, 404, 500}

\* value of the response's mcp-session-id header (Node lower-cases names)
SessionHeaders == {Undefined, "", "S1", "S2"}

\* A response body is a sequence of tokens: complete JSON values, pieces of
\* JSON (brackets), text that is no JSON, and the whitespace between them.
JsonA == "{\"a\":1}"
JsonB == "{\"b\":2}"
JsonErr == "{\"error\":{\"code\":-32601}}"
NotJson == "<html>"
LB == "["
RB == "]"
NL == "\n"
SP == " "

Whitespace == {NL, SP}

\* String.prototype.trim()
RECURSIVE TrimStart(_)
TrimStart(d) == IF d # <<>> /\ Head(d) \in Whitespace THEN TrimStart(Tail(d)) ELSE d

RECURSIVE TrimEnd(_)
TrimEnd(d) ==
    IF d # <<>> /\ d[Len(d)] \in Whitespace THEN TrimEnd(SubSeq(d, 1, Len(d) - 1)) ELSE d

Trim(d) == TrimEnd(TrimStart(d))

\* String.prototype.split('\n')
RECURSIVE Split(_)
Split(d) ==
    IF \E i \in 1..Len(d) : d[i] = NL
    THEN LET i == CHOOSE k \in 1..Len(d) : d[k] = NL /\ \A j \in 1..(k - 1) : d[j] # NL
         IN  <<SubSeq(d, 1, i - 1)>> \o Split(SubSeq(d, i + 1, Len(d)))
    ELSE <<d>>

NotSpace(t) == t \notin Whitespace

\* the text is one JSON value: a complete value, or brackets around nothing or
\* around one value
RECURSIVE IsValue(_)
IsValue(ts) ==
    \/ Len(ts) = 1 /\ ts[1] \in {JsonA, JsonB, JsonErr}
    \/ /\ Len(ts) >= 2 /\ ts[1] = LB /\ ts[Len(ts)] = RB
       /\ (Len(ts) = 2 \/ IsValue(SubSeq(ts, 2, Len(ts) - 1)))

\* JSON.parse(text) does not throw: whitespace around and inside is skipped
JsonParses(text) == IsValue(SelectSeq(text, NotSpace))

\* JSON.parse(line) succeeds on a body line
LineParses(l) == JsonParses(l)

\* line.trim() is not empty
NonBlank(l) == Trim(l) # <<>>

\* errorResponse.error.code of a body that is a JSON-RPC error object (0: the
\* body gives no code)
UpstreamCode(data) == IF SelectSeq(data, NotSpace) = <<JsonErr>> THEN -32601 ELSE 0

\* let errorMessage = `HTTP ${res.statusCode}`
HttpMessage(status) ==
    CASE status = 404 -> "HTTP 404"
      [] status = 500 -> "HTTP 500"
      [] OTHER -> "HTTP error"

Bodies ==
    { <<>>,
      <<JsonA>>,
      <<NotJson, NL, JsonB>>,
      <<JsonErr>> }

\* every body of at most MaxBodyLen tokens: values, brackets and whitespace
BodyTokens == {NL, SP, LB, RB, JsonA, JsonB}
AllBodies == UNION { [1..k -> BodyTokens] : k \in 0..MaxBodyLen }

\* the answers of an upstream that issues one session id
SessionBodies == { <<>>, <<JsonA>> }
IssuedHeaders == {Undefined, "S1"}
SessionStatuses == {200, 404}

\* ------------------------------------------------------------------ state
VARIABLES
    proc,           \* "starting", "running", "exited", "crashed"
    exitCode,       \* process exit code, -1 while the process lives
    config,         \* the environment the process was started with
    sessionId,      \* let sessionId = null
    isInitialized,  \* let isInitialized = false
    tasks,          \* one record per input line read, in input order
    out,            \* the lines written to stdout, in order
    nhttp,          \* HTTP requests issued so far
    n404,           \* 404 answers given by the upstream so far
    ndiag,          \* the lines the bridge has written to stderr so far
    ev              \* the event handled last: [op, line]

vars == <<proc, exitCode, config, sessionId, isInitialized, tasks, out, nhttp, n404, ndiag, ev>>

\* data: the body that the 'end' event of a 2xx response handed over
Event(op, line) == [op |-> op, line |-> line, data |-> <<>>]

\* ----------------------------------------------------------------- stderr
\* bug: the lines are written whatever the flag says
debugUngated(d, cfg, k) == d + k

\* k calls of debug(...): k lines on stderr when MCP_DEBUG is 'true'
debug(d, cfg, k) == IF cfg.DEBUG THEN d + k ELSE d

\* ----------------------------------------------------------------- stdout
\* console.log(JSON.stringify({jsonrpc: '2.0', error: {code, message}, id}))
\* `line` is the input line the write belongs to (0: startup), `by` the code
\* place that wrote it.
ErrorLine(code, message, id, line, by) ==
    [type |-> "error", code |-> code, text |-> message, id |-> id, line |-> line, by |-> by]

\* bug: the id member is left out when the id is null
sendErrorOmitNullId(o, code, message, id, line, by) ==
    Append(o, ErrorLine(code, message, IF id = Null THEN Undefined ELSE id, line, by))

sendError(o, code, message, id, line, by) == Append(o, ErrorLine(code, message, id, line, by))

\* console.log(line) of a body line, written by the attempt of kind `by`
PayloadLine(text, line, by) ==
    [type |-> "payload", code |-> 0, text |-> text, id |-> Undefined, line |-> line, by |-> by]

\* bug: the id is replaced by null when it is falsy, x.id || null
RequestIdOrNull(m) == IF Truthy(m.id) THEN m.id ELSE Null

\* const requestId = x.id !== undefined ? x.id : null
RequestId(m) == IF m.id # Undefined THEN m.id ELSE Null

\* error.errorCode || -32000
ErrorCode(c) == IF c # 0 THEN c ELSE -32000

\* ------------------------------------------------------------ makeRequest
isInitialize(m) == m.method = "initialize"

\* bug: the session id is attached to initialize calls too
AttachSessionAlways(m, sess) == Truthy(sess)

\* if (!isInitialize && sessionId)
AttachSession(m, sess) == ~isInitialize(m) /\ Truthy(sess)

\* bug: the custom headers are merged after the session id
RequestHeadersCustomLast(cfg, sess, m) ==
    LET h == With(baseHeaders(cfg), "Content-Length", "byteLength")
        hs == IF AttachSession(m, sess) THEN With(h, "Mcp-Session-Id", sess) ELSE h
    IN  Merge(hs, cfg.customHeaders)

\* headers = { ...defaultHeaders, 'Content-Length': n }, then the session id
RequestHeaders(cfg, sess, m) ==
    LET h == Merge(defaultHeaders(cfg), With(NoHeaders, "Content-Length", "byteLength"))
    IN  IF AttachSession(m, sess) THEN With(h, "Mcp-Session-Id", sess) ELSE h

\* bug: the session header of any response is stored
StoresSessionAnyCall(m, hdr) == Truthy(hdr)

\* if (sessionHeader && isInitialize)
StoresSession(m, hdr) == Truthy(hdr) /\ isInitialize(m)

\* bug: a 404 answer to an initialize starts the recovery too
SessionExpiredAnyMethod(m, status, sess) == status = 404 /\ Truthy(sess)

\* bug: a 404 starts the recovery also when no session id is held
SessionExpiredAnySession(m, status, sess) == status = 404 /\ ~isInitialize(m)

\* if (res.statusCode === 404 && sessionId && !isInitialize)
SessionExpired(m, status, sess) == status = 404 /\ Truthy(sess) /\ ~isInitialize(m)

\* bug: every status below 500 counts as success
IsSuccessBelow500(status) == status >= 200 /\ status < 500

\* if (res.statusCode >= 200 && res.statusCode < 300)
IsSuccess(status) == status >= 200 /\ status < 300

\* the request an attempt of a task sends
Sent(task) == IF task.kind = "init" THEN initRequest ELSE task.req

\* a line that was read and not forwarded; osid is the session id that the
\* first attempt of a forwarded line carried (null: none)
Idle(l, st) ==
    [req |-> l, st |-> st, kind |-> "none", notify |-> FALSE, depth |-> 0,
     headers |-> NoHeaders, sid |-> Null, status |-> 0, sessionHeader |-> Undefined,
     ninit |-> 0, nresend |-> 0, osid |-> Null]

\* the debug calls of makeRequest up to req.end()
AttemptDebug(m, sess) == 3 + (IF AttachSession(m, sess) THEN 1 ELSE 0)

\* makeRequest(jsonRequest) up to req.end(): the attempt is on the wire
Attempt(task, kind, cfg, sess) ==
    LET m == IF kind = "init" THEN initRequest ELSE task.req
    IN  [task EXCEPT !.st = "sent", !.kind = kind, !.status = 0, !.sessionHeader = Undefined,
                     !.headers = RequestHeaders(cfg, sess, m), !.sid = sess]

\* the promise of the task's first makeRequest has settled; the request and
\* response objects of the last attempt are dropped
Settled(task, st) ==
    [task EXCEPT !.st = st, !.status = 0, !.sessionHeader = Undefined,
                 !.headers = NoHeaders, !.sid = Null, !.osid = Null]

\* bug: the lines are written without the JSON.parse validation
RECURSIVE BodyOutputUnchecked(_, _, _)
BodyOutputUnchecked(lines, n, by) ==
    IF lines = <<>> THEN <<>>
    ELSE <<PayloadLine(Head(lines), n, by)>> \o BodyOutputUnchecked(Tail(lines), n, by)

\* bug: a line that does not parse is answered with a parse error
RECURSIVE BodyOutputErrorOnInvalid(_, _, _)
BodyOutputErrorOnInvalid(lines, n, by) ==
    IF lines = <<>> THEN <<>>
    ELSE <<IF LineParses(Head(lines)) THEN PayloadLine(Head(lines), n, by)
           ELSE ErrorLine(-32700, "Parse error", Null, n, by)>>
         \o BodyOutputErrorOnInvalid(Tail(lines), n, by)

\* for (const line of lines): the lines that parse are written, in order
RECURSIVE BodyOutput(_, _, _)
BodyOutput(lines, n, by) ==
    IF lines = <<>> THEN <<>>
    ELSE (IF LineParses(Head(lines)) THEN <<PayloadLine(Head(lines), n, by)>> ELSE <<>>)
         \o BodyOutput(Tail(lines), n, by)

\* the 2xx branch: trim the body, split it, drop the blank lines, write
SuccessOutput(data, n, by) ==
    LET trimmedData == Trim(data)
    IN  IF trimmedData = <<>> THEN <<>>
        ELSE BodyOutput(SelectSeq(Split(trimmedData), NonBlank), n, by)

Unparsable(l) == ~LineParses(l)

\* the debug calls of the 2xx branch: one for an empty body, one for every
\* line that does not parse
SuccessDebug(data) ==
    LET trimmedData == Trim(data)
    IN  IF trimmedData = <<>> THEN 1
        ELSE Len(SelectSeq(SelectSeq(Split(trimmedData), NonBlank), Unparsable))

\* reject(error) of the innermost attempt: every active reinitializeAndRetry
\* frame catches, writes and rethrows; then the line handler's catch runs
RECURSIVE ReinitErrors(_, _, _, _)
ReinitErrors(n, task, code, depth) ==
    IF depth = 0 THEN <<>>
    ELSE <<ErrorLine(ErrorCode(code), "Session expired and re-initialization failed",
                     RequestId(task.req), n, "reinit")>>
         \o ReinitErrors(n, task, code, depth - 1)

HandlerError(n, task, code, message) ==
    IF task.notify THEN <<>>
    ELSE <<ErrorLine(ErrorCode(code), message, RequestId(task.req), n, "line")>>

RejectOutput(n, task, code, message) ==
    ReinitErrors(n, task, code, task.depth) \o HandlerError(n, task, code, message)

\* the debug calls of the catch blocks that run on a rejection
RejectDebug(task) == 2 * task.depth + (IF task.notify THEN 1 ELSE 2)

\* ---------------------------------------------------------------- actions
\* the process before its first statement, started in one of `cfgs`
Start(cfgs) ==
    /\ proc = "starting"
    /\ exitCode = -1
    /\ config \in cfgs
    /\ sessionId = Null
    /\ isInitialized = FALSE
    /\ tasks = <<>>
    /\ out = <<>>
    /\ nhttp = 0
    /\ n404 = 0
    /\ ndiag = 0
    /\ ev = Event("none", 0)

Init == Start(Configs)

\* module top level: configuration validation, then the handlers are attached
Startup ==
    /\ proc = "starting"
    /\ IF ~Truthy(config.ENDPOINT)
       THEN /\ out' = sendError(out, -32000, "MCP_ENDPOINT environment variable is required", Null, 0, "startup")
            /\ ndiag' = debug(ndiag, config, 1)
            /\ proc' = "exited"
            /\ exitCode' = 1
       ELSE IF ~UrlParses(config.ENDPOINT)
       THEN /\ out' = sendError(out, -32000, "Invalid MCP_ENDPOINT URL", Null, 0, "startup")
            /\ ndiag' = debug(ndiag, config, 1)
            /\ proc' = "exited"
            /\ exitCode' = 1
       ELSE /\ proc' = "running"
            /\ ndiag' = debug(ndiag, config, 10)
            /\ UNCHANGED <<out, exitCode>>
    /\ ev' = Event("startup", 0)
    /\ UNCHANGED <<config, sessionId, isInitialized, tasks, nhttp, n404>>

\* rl.on('line', ...), while fewer than `max` lines have been read
ReadLine(l, max) ==
    /\ proc = "running"
    /\ Len(tasks) < max
    /\ LET n == Len(tasks) + 1
           forward(notify) ==
               /\ tasks' = Append(tasks,
                      Attempt([Idle(l, "sent") EXCEPT
                                  !.notify = notify,
                                  !.osid = IF AttachSession(l, sessionId) THEN sessionId ELSE Null],
                              "orig", config, sessionId))
               /\ nhttp' = nhttp + 1
               /\ ndiag' = debug(ndiag, config, (IF notify THEN 2 ELSE 1)
                                                + AttemptDebug(l, sessionId))
               /\ UNCHANGED <<out, proc, exitCode>>
           answer(code, message, id) ==
               /\ tasks' = Append(tasks, Idle(l, "answered"))
               /\ out' = sendError(out, code, message, id, n, "line")
               /\ ndiag' = debug(ndiag, config, 2)
               /\ UNCHANGED <<nhttp, proc, exitCode>>
       IN  /\ ev' = Event("line", n)
           /\ IF l.kind = "blank"
              THEN /\ tasks' = Append(tasks, Idle(l, "ignored"))
                   /\ UNCHANGED <<out, nhttp, ndiag, proc, exitCode>>
              ELSE IF ParseThrows(l)
              THEN answer(-32700, "Parse error", Null)
              ELSE IF ReadThrows(l)
              THEN \* uncaught TypeError in the event handler
                   /\ tasks' = Append(tasks, Idle(l, "threw"))
                   /\ ndiag' = debug(ndiag, config, 1)
                   /\ proc' = "crashed"
                   /\ exitCode' = 1
                   /\ UNCHANGED <<out, nhttp>>
              ELSE IF l.jsonrpc # "2.0"
              THEN answer(-32600, "Invalid Request: jsonrpc must be 2.0", RequestId(l))
              ELSE IF IsNotification(l)
              THEN forward(TRUE)
              ELSE IF IsRequest(l)
              THEN forward(FALSE)
              ELSE answer(-32600, "Invalid Request: missing method or id", RequestId(l))
    /\ UNCHANGED <<config, sessionId, isInitialized, n404>>

\* bug: a line is handled only when no HTTP call is in flight
LineAfterPrevious(l) ==
    /\ \A n \in DOMAIN tasks : tasks[n].st \notin {"sent", "headers"}
    /\ ReadLine(l, MaxLines)

Line(l) == ReadLine(l, MaxLines)

\* httpRequest(options, (res) => ...): status line and headers have arrived
Response(n, status, hdr) ==
    /\ proc = "running"
    /\ n \in DOMAIN tasks
    /\ tasks[n].st = "sent"
    /\ status = 404 => n404 < MaxNotFound
    /\ n404' = IF status = 404 THEN n404 + 1 ELSE n404
    /\ tasks' = [tasks EXCEPT ![n].st = "headers", ![n].status = status,
                             ![n].sessionHeader = hdr]
    /\ IF StoresSession(Sent(tasks[n]), hdr)
       THEN sessionId' = hdr /\ isInitialized' = TRUE /\ ndiag' = debug(ndiag, config, 1)
       ELSE UNCHANGED <<sessionId, isInitialized, ndiag>>
    /\ ev' = Event("response", n)
    /\ UNCHANGED <<proc, exitCode, config, out, nhttp>>

\* bug: the 404 branch forgets the flag
ClearSessionKeepsFlag == sessionId' = Null /\ UNCHANGED isInitialized

\* sessionId = null; isInitialized = false
ClearSession == sessionId' = Null /\ isInitialized' = FALSE

\* res.on('end', ...), with the promise continuations it runs
End(n, body) ==
    /\ proc = "running"
    /\ n \in DOMAIN tasks
    /\ tasks[n].st = "headers"
    /\ LET task == tasks[n]
           m == Sent(task)
       IN  IF SessionExpired(m, task.status, sessionId)
           THEN \* reinitializeAndRetry(jsonRequest): the synthetic initialize
                /\ ClearSession
                /\ tasks' = [tasks EXCEPT ![n] =
                       Attempt([task EXCEPT !.depth = @ + 1, !.ninit = @ + 1],
                               "init", config, Null)]
                /\ nhttp' = nhttp + 1
                /\ ndiag' = debug(ndiag, config, 4 + AttemptDebug(initRequest, Null))
                /\ UNCHANGED out
           ELSE IF IsSuccess(task.status)
           THEN /\ out' = out \o SuccessOutput(body, n, task.kind)
                /\ IF task.kind = "init"
                   THEN \* await makeRequest(initRequest) returned: resend
                        /\ tasks' = [tasks EXCEPT ![n] =
                               Attempt([task EXCEPT !.nresend = @ + 1],
                                       "resend", config, sessionId)]
                        /\ nhttp' = nhttp + 1
                        /\ ndiag' = debug(ndiag, config, 3 + SuccessDebug(body)
                                                         + AttemptDebug(task.req, sessionId))
                   ELSE /\ tasks' = [tasks EXCEPT ![n] = Settled(task, "resolved")]
                        /\ ndiag' = debug(ndiag, config, 2 + SuccessDebug(body))
                        /\ UNCHANGED nhttp
                /\ UNCHANGED <<sessionId, isInitialized>>
           ELSE /\ out' = out \o RejectOutput(n, task, UpstreamCode(body),
                                                HttpMessage(task.status))
                /\ tasks' = [tasks EXCEPT ![n] = Settled(task, "rejected")]
                /\ ndiag' = debug(ndiag, config, 2 + RejectDebug(task))
                /\ UNCHANGED <<sessionId, isInitialized, nhttp>>
    /\ ev' = [Event("end", n) EXCEPT !.data = IF IsSuccess(tasks[n].status) THEN body ELSE <<>>]
    /\ UNCHANGED <<proc, exitCode, config, n404>>

\* req.on('error', ...) and req.on('timeout', ...): the attempt fails before its
\* body has ended; the error carries no errorCode
Fail(n, message) ==
    /\ proc = "running"
    /\ n \in DOMAIN tasks
    /\ tasks[n].st \in {"sent", "headers"}
    /\ out' = out \o RejectOutput(n, tasks[n], 0, message)
    /\ tasks' = [tasks EXCEPT ![n] = Settled(tasks[n], "rejected")]
    /\ ndiag' = debug(ndiag, config, 1 + RejectDebug(tasks[n]))
    /\ ev' = Event(message, n)
    /\ UNCHANGED <<proc, exitCode, config, sessionId, isInitialized, nhttp, n404>>

\* bug: the handlers return without process.exit, the pending calls go on
CloseWithoutExit ==
    /\ proc = "running"
    /\ ndiag' = debug(ndiag, config, 1)
    /\ ev' = Event("close", 0)
    /\ UNCHANGED <<proc, exitCode, config, sessionId, isInitialized, tasks, out, nhttp, n404>>

\* rl.on('close'), SIGINT, SIGTERM: process.exit(0)
Close ==
    /\ proc = "running"
    /\ proc' = "exited"
    /\ exitCode' = 0
    /\ ndiag' = debug(ndiag, config, 1)
    /\ ev' = Event("close", 0)
    /\ UNCHANGED <<config, sessionId, isInitialized, tasks, out, nhttp, n404>>

Next ==
    \/ Startup
    \/ \E l \in Lines : Line(l)
    \/ \E n \in 1..MaxLines, status \in Statuses, hdr \in SessionHeaders : Response(n, status, hdr)
    \/ \E n \in 1..MaxLines, body \in Bodies : End(n, body)
    \/ \E n \in 1..MaxLines, message \in {"Request error", "Request timeout"} : Fail(n, message)
    \/ Close

Spec == Init /\ [][Next]_vars

\* One input line of any kind, under every configuration, answered by every
\* body of at most MaxBodyLen tokens.
InitReply == Start(AllConfigs)

NextReply ==
    \/ Startup
    \/ \E l \in AllLines : ReadLine(l, MaxReplyLines)
    \/ \E n \in 1..MaxReplyLines, status \in Statuses, hdr \in SessionHeaders :
           Response(n, status, hdr)
    \/ \E n \in 1..MaxReplyLines, body \in AllBodies : End(n, body)
    \/ \E n \in 1..MaxReplyLines, message \in {"Request error", "Request timeout"} :
           Fail(n, message)
    \/ Close

SpecReply == InitReply /\ [][NextReply]_vars

\* A session of well-formed requests: up to MaxSessionLines lines, each an
\* initialize or a call, against an upstream that issues one session id and
\* answers 200 or 404; a call may also fail with a network error.
SessionConfigs == { Environment("http://host/mcp", "jwt", NoHeaders, FALSE) }

InitSession == Start(SessionConfigs)

NextSession ==
    \/ Startup
    \/ \E l \in SessionLines : ReadLine(l, MaxSessionLines)
    \/ \E n \in 1..MaxSessionLines, status \in SessionStatuses, hdr \in IssuedHeaders :
           Response(n, status, hdr)
    \/ \E n \in 1..MaxSessionLines, body \in SessionBodies : End(n, body)
    \/ \E n \in 1..MaxSessionLines : Fail(n, "Request error")
    \/ Close

SpecSession == InitSession /\ [][NextSession]_vars

\* A session that is renewed: up to MaxRenewalLines lines, each an initialize
\* or a call, against an upstream that issues two session ids and answers 200
\* with an empty body or 404.
RenewalLines ==
    [kind : {"object"}, jsonrpc : {"2.0"}, method : {"initialize", "tools/call"}, id : {IdOne}]
RenewedHeaders == {Undefined, "S1", "S2"}
EmptyBodies == { <<>> }

NextRenewal ==
    \/ Startup
    \/ \E l \in RenewalLines : ReadLine(l, MaxRenewalLines)
    \/ \E n \in 1..MaxRenewalLines, status \in SessionStatuses, hdr \in RenewedHeaders :
           Response(n, status, hdr)
    \/ \E n \in 1..MaxRenewalLines, body \in EmptyBodies : End(n, body)
    \/ \E n \in 1..MaxRenewalLines : Fail(n, "Request error")
    \/ Close

SpecRenewal == InitSession /\ [][NextRenewal]_vars

\* Streams: up to MaxStreamLines lines, each an initialize or a call, against
\* an upstream that issues one session id, answers 200, 404 or 500, and sends
\* bodies of several lines.
MaxStreamLines == 2
StreamLines ==
    [kind : {"object"}, jsonrpc : {"2.0"}, method : {"initialize", "tools/call"}, id : {IdOne}]
StreamBodies ==
    { <<JsonA, NL, JsonB>>,
      <<JsonB, NL, NotJson, NL, JsonA>>,
      <<JsonErr>> }

NextStream ==
    \/ Startup
    \/ \E l \in StreamLines : ReadLine(l, MaxStreamLines)
    \/ \E n \in 1..MaxStreamLines, status \in Statuses, hdr \in IssuedHeaders :
           Response(n, status, hdr)
    \/ \E n \in 1..MaxStreamLines, body \in StreamBodies : End(n, body)
    \/ \E n \in 1..MaxStreamLines : Fail(n, "Request error")
    \/ Close

SpecStream == InitSession /\ [][NextStream]_vars

\* ---------------------------------------------------------- legacy bridge
\* src/unnamed/part_000: the bridge without session handling. A line that
\* parses is forwarded as it is; the answer is handled in the 'end' event.
LegacyConfigs ==
    { Environment(Undefined, Undefined, NoHeaders, FALSE),
      Environment("not a url", Undefined, NoHeaders, FALSE),
      Environment("http://host/mcp", Undefined, NoHeaders, FALSE),
      Environment("http://host/mcp", Undefined, LegacyHeaders, TRUE) }

\* headers = { 'Content-Type', 'Content-Length', 'Accept', ...customHeaders }
legacyHeaders(cfg) ==
    Merge(With(With(With(NoHeaders, "Content-Type", "application/json"),
                    "Content-Length", "byteLength"),
               "Accept", "application/json"),
          cfg.customHeaders)

\* jsonRequest.id || null; a property read on a string, number, boolean or
\* array yields undefined
legacyId(m) == IF Truthy(m.id) THEN m.id ELSE Null

InitLegacy == Start(LegacyConfigs)

\* module top level of the legacy bridge
LegacyStartup ==
    /\ proc = "starting"
    /\ IF ~Truthy(config.ENDPOINT)
       THEN /\ out' = sendError(out, -32000, "MCP_ENDPOINT environment variable is required", Null, 0, "startup")
            /\ ndiag' = debug(ndiag, config, 1)
            /\ proc' = "exited"
            /\ exitCode' = 1
       ELSE IF ~UrlParses(config.ENDPOINT)
       THEN /\ out' = sendError(out, -32000, "Invalid MCP_ENDPOINT URL", Null, 0, "startup")
            /\ ndiag' = debug(ndiag, config, 1)
            /\ proc' = "exited"
            /\ exitCode' = 1
       ELSE /\ proc' = "running"
            /\ ndiag' = debug(ndiag, config, 4)
            /\ UNCHANGED <<out, exitCode>>
    /\ ev' = Event("startup", 0)
    /\ UNCHANGED <<config, sessionId, isInitialized, tasks, nhttp, n404>>

\* rl.on('line', ...) of the legacy bridge
LegacyLine(l) ==
    /\ proc = "running"
    /\ Len(tasks) < MaxLegacyLines
    /\ LET n == Len(tasks) + 1
       IN  /\ ev' = Event("line", n)
           /\ IF l.kind = "blank"
              THEN /\ tasks' = Append(tasks, Idle(l, "ignored"))
                   /\ UNCHANGED <<out, nhttp, ndiag>>
              ELSE IF ParseThrows(l)
              THEN /\ tasks' = Append(tasks, Idle(l, "answered"))
                   /\ out' = sendError(out, -32700, "Parse error", Null, n, "line")
                   /\ ndiag' = debug(ndiag, config, 2)
                   /\ UNCHANGED nhttp
              ELSE /\ tasks' = Append(tasks,
                          [Idle(l, "sent") EXCEPT !.kind = "orig",
                                                  !.headers = legacyHeaders(config)])
                   /\ nhttp' = nhttp + 1
                   /\ ndiag' = debug(ndiag, config, 3)
                   /\ UNCHANGED out
    /\ UNCHANGED <<proc, exitCode, config, sessionId, isInitialized, n404>>

\* httpRequest(options, (res) => ...) of the legacy bridge: the handlers of
\* the response are attached
LegacyResponse(n, status) ==
    /\ proc = "running"
    /\ n \in DOMAIN tasks
    /\ tasks[n].st = "sent"
    /\ tasks' = [tasks EXCEPT ![n].st = "headers", ![n].status = status]
    /\ ev' = Event("response", n)
    /\ UNCHANGED <<proc, exitCode, config, sessionId, isInitialized, out, nhttp, n404, ndiag>>

\* res.on('end', ...) of the legacy bridge
LegacyEnd(n, body) ==
    /\ proc = "running"
    /\ n \in DOMAIN tasks
    /\ tasks[n].st = "headers"
    /\ LET task == tasks[n]
       IN  IF IsSuccess(task.status)
           THEN /\ out' = out \o SuccessOutput(body, n, "orig")
                /\ tasks' = [tasks EXCEPT ![n] = Settled(task, "resolved")]
                /\ ndiag' = debug(ndiag, config, 1 + SuccessDebug(body))
                /\ UNCHANGED <<proc, exitCode>>
           ELSE IF ReadThrows(task.req)
           THEN \* jsonRequest.id of null: uncaught TypeError
                /\ tasks' = [tasks EXCEPT ![n] = Settled(task, "threw")]
                /\ ndiag' = debug(ndiag, config, 1)
                /\ proc' = "crashed"
                /\ exitCode' = 1
                /\ UNCHANGED out
           ELSE /\ out' = sendError(out, -32000, HttpMessage(task.status),
                                     legacyId(task.req), n, "end")
                /\ tasks' = [tasks EXCEPT ![n] = Settled(task, "rejected")]
                /\ ndiag' = debug(ndiag, config, 2)
                /\ UNCHANGED <<proc, exitCode>>
    /\ ev' = [Event("end", n) EXCEPT !.data = IF IsSuccess(tasks[n].status) THEN body ELSE <<>>]
    /\ UNCHANGED <<config, sessionId, isInitialized, nhttp, n404>>

\* req.on('error', ...) of the legacy bridge
LegacyError(n) ==
    /\ proc = "running"
    /\ n \in DOMAIN tasks
    /\ tasks[n].st \in {"sent", "headers"}
    /\ IF ReadThrows(tasks[n].req)
       THEN /\ tasks' = [tasks EXCEPT ![n] = Settled(tasks[n], "threw")]
            /\ ndiag' = debug(ndiag, config, 1)
            /\ proc' = "crashed"
            /\ exitCode' = 1
            /\ UNCHANGED out
       ELSE /\ out' = sendError(out, -32000, "Request error", legacyId(tasks[n].req), n, "error")
            /\ tasks' = [tasks EXCEPT ![n] = Settled(tasks[n], "rejected")]
            /\ ndiag' = debug(ndiag, config, 2)
            /\ UNCHANGED <<proc, exitCode>>
    /\ ev' = Event("Request error", n)
    /\ UNCHANGED <<config, sessionId, isInitialized, nhttp, n404>>

\* rl.on('close'), SIGINT, SIGTERM of the legacy bridge: process.exit(0)
LegacyClose ==
    /\ proc = "running"
    /\ proc' = "exited"
    /\ exitCode' = 0
    /\ ndiag' = debug(ndiag, config, 1)
    /\ ev' = Event("close", 0)
    /\ UNCHANGED <<config, sessionId, isInitialized, tasks, out, nhttp, n404>>

NextLegacy ==
    \/ LegacyStartup
    \/ \E l \in AllLines : LegacyLine(l)
    \/ \E n \in 1..MaxLegacyLines, status \in Statuses : LegacyResponse(n, status)
    \/ \E n \in 1..MaxLegacyLines, body \in Bodies : LegacyEnd(n, body)
    \/ \E n \in 1..MaxLegacyLines : LegacyError(n)
    \/ LegacyClose

SpecLegacy == InitLegacy /\ [][NextLegacy]_vars

\* ================================================================= claims
Forwarded(n) == tasks[n].kind # "none"
ErrorsOf(n) == {i \in DOMAIN out : out[i].line = n /\ out[i].type = "error"}
LinesOf(n) == {i \in DOMAIN out : out[i].line = n}
SessionHeaderOf(n) == tasks[n].headers["Mcp-Session-Id"]
\* this step is the 'end' event of the attempt of line n
Ends(n) == n \in DOMAIN tasks /\ ev'.op = "end" /\ ev'.line = n
\* this step is the response callback of the attempt of line n
Responds(n) == n \in DOMAIN tasks /\ ev'.op = "response" /\ ev'.line = n

\* C1: every input line causes at most one synthetic initialize and at most one
\* resend of the original request (at most three HTTP attempts), whatever the
\* upstream answers.
C1_BoundedRecovery ==
    \A n \in DOMAIN tasks :
        /\ tasks[n].ninit <= 1
        /\ tasks[n].nresend <= 1
        /\ tasks[n].ninit + tasks[n].nresend + 1 <= 3

\* C2: a Request (method and non-null id) that ended in failure has exactly one
\* JSON-RPC error object on stdout.
C2_OneErrorPerFailure ==
    \A n \in DOMAIN tasks :
        (Forwarded(n) /\ ~tasks[n].notify /\ tasks[n].st = "rejected")
            => Cardinality(ErrorsOf(n)) = 1

\* C3: no line of stdout belongs to a notification (jsonrpc "2.0", a method, no
\* id), whatever the upstream answered to its forwarded call.
C3_NotificationSilence ==
    \A n \in DOMAIN tasks : (Forwarded(n) /\ tasks[n].notify) => LinesOf(n) = {}

C5_RecoveryOutput ==
    \A n \in DOMAIN tasks :
        (~tasks[n].notify /\ tasks[n].kind = "resend" /\ tasks[n].st = "resolved"
                          /\ tasks[n].ninit = 1)
            => \A i \in LinesOf(n) : out[i].type = "payload" /\ out[i].by = "resend"

\* C6: a non-initialize attempt built while session id S is held carries
\* Mcp-Session-Id = S, whatever the custom headers say; built while none is
\* held, its Mcp-Session-Id is the custom headers' (absent when they have none).
C6_SessionAttached ==
    \A n \in DOMAIN tasks :
        (tasks[n].st \in {"sent", "headers"} /\ ~isInitialize(Sent(tasks[n])))
            => IF tasks[n].sid # Null
               THEN SessionHeaderOf(n) = tasks[n].sid
               ELSE SessionHeaderOf(n) = config.customHeaders["Mcp-Session-Id"]

\* a non-initialize attempt in flight, built under a held session id, with
\* custom headers that define Mcp-Session-Id
C6_Witness ==
    \E n \in DOMAIN tasks :
        /\ tasks[n].st \in {"sent", "headers"} /\ ~isInitialize(Sent(tasks[n]))
        /\ tasks[n].sid # Null
        /\ config.customHeaders["Mcp-Session-Id"] # Undefined

\* C7 as stated: no initialize attempt carries an Mcp-Session-Id header, for
\* every configuration.
C7_NoSessionHeaderOnInitialize ==
    \A n \in DOMAIN tasks :
        (tasks[n].st \in {"sent", "headers"} /\ isInitialize(Sent(tasks[n])))
            => SessionHeaderOf(n) = Undefined

\* C7 amended: an initialize attempt, sent by the client or synthesized, never
\* carries the held session id: its Mcp-Session-Id header is the one of the
\* configured custom headers, and absent when they define none.
C7_InitializeWithoutHeldSession ==
    \A n \in DOMAIN tasks :
        (tasks[n].st \in {"sent", "headers"} /\ isInitialize(Sent(tasks[n])))
            => SessionHeaderOf(n) = config.customHeaders["Mcp-Session-Id"]

\* an initialize attempt in flight that was built while a session id was held
C7_Witness ==
    \E n \in DOMAIN tasks :
        /\ tasks[n].st \in {"sent", "headers"} /\ isInitialize(Sent(tasks[n]))
        /\ tasks[n].sid # Null

\* C8: the session id changes only when the response to an initialize call
\* carries a (non-empty) session header H, to H, and when the 'end' of a
\* non-initialize call's 404 response clears it; both always happen; a
\* non-initialize response never changes it; nothing else does.
C8_SessionTransitions ==
    [][/\ sessionId' # sessionId =>
            \E n \in DOMAIN tasks :
                \/ /\ Responds(n) /\ isInitialize(Sent(tasks[n]))
                   /\ Truthy(tasks'[n].sessionHeader)
                   /\ sessionId' = tasks'[n].sessionHeader
                \/ /\ Ends(n) /\ ~isInitialize(Sent(tasks[n]))
                   /\ tasks[n].status = 404
                   /\ sessionId' = Null
       /\ \A n \in 1..MaxLines :
            /\ (Responds(n) /\ isInitialize(Sent(tasks[n])) /\ Truthy(tasks'[n].sessionHeader))
                  => sessionId' = tasks'[n].sessionHeader
            /\ (Responds(n) /\ ~isInitialize(Sent(tasks[n]))) => sessionId' = sessionId
            /\ (Ends(n) /\ ~isInitialize(Sent(tasks[n])) /\ tasks[n].status = 404)
                  => sessionId' = Null]_vars

\* a non-initialize response carried session header S2 while S1 was held, and
\* S1 is still held
C8_Witness ==
    \E n \in DOMAIN tasks :
        /\ tasks[n].st = "headers" /\ ~isInitialize(Sent(tasks[n]))
        /\ tasks[n].sessionHeader = "S2"
        /\ sessionId = "S1"

\* C9: no input line and no upstream outcome ends the process.
C9_NoCrash == proc # "crashed"

\* C10: a non-blank input line that is no JSON writes exactly one line, an
\* error with code -32700 and id null, and issues no HTTP request.
C10_ParseError ==
    [][\A n \in 1..MaxLines :
          (ev'.op = "line" /\ ev'.line = n /\ Len(tasks') = n /\ Len(tasks) = n - 1
             /\ tasks'[n].req.kind = "text")
            => /\ Len(out') = Len(out) + 1
               /\ SubSeq(out', 1, Len(out)) = out
               /\ out'[Len(out')].type = "error"
               /\ out'[Len(out')].code = -32700
               /\ out'[Len(out')].id = Null
               /\ nhttp' = nhttp
               /\ tasks'[n].st = "answered"]_vars

\* a line that is no JSON has been read and answered
C10_Witness ==
    \E n \in DOMAIN tasks : tasks[n].req.kind = "text" /\ tasks[n].st = "answered"

\* the line is valid JSON, of any type
ValidJson(l) == l.kind \in {"null", "scalar", "array", "object"}

\* C11: every input line that is valid JSON, of any JSON type, and whose jsonrpc
\* member is not the string "2.0" is answered with exactly one error of code
\* -32600 whose id is the line's id (null when it has none), and causes no HTTP
\* request.
C11_InvalidVersion ==
    \A n \in DOMAIN tasks :
        (ValidJson(tasks[n].req) /\ tasks[n].req.jsonrpc # "2.0")
          => /\ ~Forwarded(n)
             /\ Cardinality(ErrorsOf(n)) = 1
             /\ LinesOf(n) = ErrorsOf(n)
             /\ \A i \in ErrorsOf(n) :
                    out[i].code = -32600 /\ out[i].id = RequestId(tasks[n].req)

\* the two texts are the same JSON value: they differ in whitespace only
SameValue(a, b) == SelectSeq(a, NotSpace) = SelectSeq(b, NotSpace)
\* the lines this step writes
Written == [i \in 1..(Len(out') - Len(out)) |-> out'[Len(out) + i]]
\* this step is the 'end' event of a 2xx answer to the Request of line n itself
RequestSucceeds(n) ==
    /\ Ends(n)
    /\ ~tasks[n].notify
    /\ tasks[n].kind \in {"orig", "resend"}
    /\ IsSuccess(tasks[n].status)

\* C12: a 2xx answer to a Request whose body is one JSON value, on
\* one line or spread over several, writes exactly one line, that JSON value.
C12_SingleValue ==
    [][\A n \in 1..MaxReplyLines :
          (RequestSucceeds(n) /\ JsonParses(ev'.data))
            => /\ Len(out') = Len(out) + 1
               /\ SubSeq(out', 1, Len(out)) = out
               /\ out'[Len(out')].type = "payload"
               /\ SameValue(out'[Len(out')].text, ev'.data)]_vars

\* the non-blank lines of the body that parse as JSON on their own
ParsableLines(data) ==
    LET keep(l) == NonBlank(l) /\ JsonParses(l)
    IN  SelectSeq(Split(Trim(data)), keep)

\* C13: a 2xx answer writes exactly the non-blank lines of its body that parse
\* as JSON on their own, each verbatim and in body order; the other lines are
\* dropped without an error and without failing the call; an empty or
\* whitespace-only body writes nothing.
C13_MultiLineBody ==
    [][\A n \in 1..MaxReplyLines :
          (Ends(n) /\ IsSuccess(tasks[n].status))
            => /\ SubSeq(out', 1, Len(out)) = out
               /\ Len(Written) = Len(ParsableLines(ev'.data))
               /\ \A i \in DOMAIN Written :
                      /\ Written[i].type = "payload"
                      /\ Written[i].text = ParsableLines(ev'.data)[i]
               /\ Trim(ev'.data) = <<>> => out' = out
               /\ tasks'[n].st # "rejected"]_vars

\* a 2xx body of a line that does not parse and a line that does has been
\* answered: the call resolved and one line was written
C13_Witness ==
    \E n \in DOMAIN tasks :
        /\ ev.op = "end" /\ ev.line = n
        /\ tasks[n].st = "resolved"
        /\ Len(Split(Trim(ev.data))) = 2
        /\ Len(ParsableLines(ev.data)) = 1
        /\ Len(out) = 1

\* C14: every error written for a Request, by the line handler or by the
\* recovery, carries the id of that Request, the ids 0 and "" included; it
\* carries the id 0 of the synthetic initialize only when the Request's id is 0.
C14_ErrorIdCorrelation ==
    \A i \in DOMAIN out :
        (out[i].type = "error" /\ out[i].line \in DOMAIN tasks
           /\ IsRequest(tasks[out[i].line].req))
          => out[i].id = tasks[out[i].line].req.id

\* a Request with id "" failed in its recovery and a Request with id 0 failed
\* without one: both errors are on stdout
C14_Witness ==
    \E i, j \in DOMAIN out :
        /\ out[i].type = "error" /\ out[i].by = "reinit" /\ out[i].id = IdEmpty
        /\ out[j].type = "error" /\ out[j].by = "line" /\ out[j].id = IdZero
        /\ out[j].line # out[i].line
        /\ tasks[out[j].line].ninit = 0

\* the first attempt of the call of line m carried the session id sid, was
\* answered 404, and the call is still in flight
ExpiredInFlight(m, sid) ==
    /\ IsRequest(tasks[m].req) /\ ~isInitialize(tasks[m].req)
    /\ tasks[m].osid = sid
    /\ tasks[m].st \in {"sent", "headers"}
    /\ \/ tasks[m].ninit >= 1
       \/ tasks[m].kind = "orig" /\ tasks[m].status = 404

\* C15: when two non-initialize Requests sent with the same session id are in
\* flight together and both are answered 404, each of them starts its own
\* recovery, in every order of the events: neither gets the HTTP 404 error.
C15_RacingExpirations ==
    [][\A n \in 1..MaxSessionLines :
          (/\ Ends(n)
           /\ tasks[n].kind = "orig" /\ tasks[n].status = 404
           /\ IsRequest(tasks[n].req) /\ ~isInitialize(tasks[n].req)
           /\ tasks[n].osid # Null
           /\ \E m \in DOMAIN tasks \ {n} : ExpiredInFlight(m, tasks[n].osid))
            => /\ tasks'[n].kind = "init"
               /\ tasks'[n].ninit = 1
               /\ out' = out]_vars

\* C16: a JSON object with jsonrpc "2.0" is forwarded as a Request exactly when
\* it has a method and an id that is present and not null (0 and "" are
\* present); one with no method, or with a method and the id null, is answered
\* with exactly one error of code -32600 that carries the id of the message
\* (null when it has none), and causes no HTTP request.
C16_Classification ==
    \A n \in DOMAIN tasks :
        LET l == tasks[n].req
        IN  (l.kind = "object" /\ l.jsonrpc = "2.0")
              => /\ (Forwarded(n) /\ ~tasks[n].notify)
                      <=> (l.method # Undefined /\ l.id \notin {Undefined, Null})
                 /\ (l.method = Undefined \/ l.id = Null)
                      => /\ ~Forwarded(n)
                         /\ Cardinality(ErrorsOf(n)) = 1
                         /\ LinesOf(n) = ErrorsOf(n)
                         /\ \A i \in ErrorsOf(n) :
                                /\ out[i].code = -32600
                                /\ out[i].id = IF l.id = Undefined THEN Null ELSE l.id

\* a message with a method and the id "" is in flight as a Request
C16_Witness ==
    \E n \in DOMAIN tasks :
        /\ tasks[n].req.jsonrpc = "2.0" /\ tasks[n].req.id = IdEmpty
        /\ tasks[n].kind = "orig" /\ tasks[n].st = "sent" /\ ~tasks[n].notify

InFlight(n) == tasks[n].st \in {"sent", "headers"}

\* C18: a line is handled without waiting for the HTTP round trip of an earlier
\* line: while the process runs and input is left, every line can be read
\* whatever calls are in flight, and a call on the wire can be answered
\* whatever earlier calls are still unanswered.
C18_NonBlocking ==
    /\ (proc = "running" /\ Len(tasks) < MaxLines)
         => \A l \in Lines : ENABLED Line(l)
    /\ \A n \in DOMAIN tasks :
           (proc = "running" /\ tasks[n].st = "sent")
             => ENABLED Response(n, 200, Undefined)

\* the call of the first line is still unanswered; the second line was read,
\* forwarded and answered after it
C18_Witness ==
    /\ Len(tasks) = 2
    /\ tasks[1].st = "sent" /\ tasks[1].kind = "orig"
    /\ tasks[2].st = "resolved"
    /\ \E i \in DOMAIN out : out[i].line = 2 /\ out[i].type = "payload"

C20_ExitOnClose ==
    /\ ev.op = "close" => proc = "exited" /\ exitCode = 0
    /\ proc = "exited" => ~ENABLED Next

\* the process has exited with code 0 while a synthetic initialize was on the
\* wire
C20_Witness ==
    /\ proc = "exited" /\ exitCode = 0 /\ ev.op = "close"
    /\ \E n \in DOMAIN tasks : InFlight(n) /\ tasks[n].kind = "init"

\* the endpoint is unset, or new URL(ENDPOINT) throws
BadEndpoint == ~Truthy(config.ENDPOINT) \/ config.ENDPOINT = "not a url"

\* C21: when the endpoint is unset or is no URL, the process writes exactly one
\* error object with code -32000 and id null, whose message says "required"
\* when the endpoint is unset, exits with a non-zero code, and never reads a
\* line or issues an HTTP request.
C21_FatalConfiguration ==
    BadEndpoint
      => /\ tasks = <<>> /\ nhttp = 0 /\ proc \in {"starting", "exited"}
         /\ proc = "starting" => out = <<>>
         /\ proc = "exited"
              => /\ exitCode > 0
                 /\ Len(out) = 1
                 /\ out[1].type = "error" /\ out[1].code = -32000 /\ out[1].id = Null
                 /\ ~Truthy(config.ENDPOINT)
                      => out[1].text = "MCP_ENDPOINT environment variable is required"

\* the process was started with an endpoint that is no URL and has exited
C21_Witness ==
    /\ config.ENDPOINT = "not a url"
    /\ proc = "exited" /\ exitCode = 1 /\ Len(out) = 1

\* this step is the 'end' event of a 2xx answer to the synthetic initialize of
\* line n
InitializeSucceeds(n) ==
    /\ Ends(n)
    /\ tasks[n].kind = "init" /\ tasks[n].st = "headers"
    /\ tasks[n].status >= 200 /\ tasks[n].status < 300

\* C22: in a recovery the session id is cleared before the synthetic initialize
\* is sent; the original request is resent only after the synthetic initialize
\* was answered 2xx and its body has ended; the resent message is the original
\* one; and when the synthetic initialize fails, by its status, a network
\* error or a timeout, the original request is not resent.
C22_RecoveryOrder ==
    [][\A n \in DOMAIN tasks :
          /\ tasks'[n].ninit > tasks[n].ninit
               => /\ sessionId' = Null /\ ~isInitialized'
                  /\ tasks'[n].kind = "init" /\ tasks'[n].st = "sent"
                  /\ tasks'[n].headers["Mcp-Session-Id"] = config.customHeaders["Mcp-Session-Id"]
          /\ tasks'[n].nresend > tasks[n].nresend
               => /\ InitializeSucceeds(n)
                  /\ tasks'[n].kind = "resend" /\ tasks'[n].st = "sent"
                  /\ tasks'[n].req = tasks[n].req
                  /\ Sent(tasks'[n]) = tasks[n].req
          /\ (tasks[n].kind = "init" /\ tasks'[n] # tasks[n]
                 /\ ~InitializeSucceeds(n) /\ ~Responds(n))
               => /\ tasks'[n].st = "rejected"
                  /\ tasks'[n].nresend = tasks[n].nresend
          /\ tasks[n].st = "rejected" => tasks'[n] = tasks[n]]_vars

\* the resend of a call with id "" is on the wire after its recovery
C22_Witness ==
    \E n \in DOMAIN tasks :
        /\ tasks[n].kind = "resend" /\ tasks[n].st = "sent"
        /\ tasks[n].ninit = 1 /\ tasks[n].nresend = 1
        /\ tasks[n].req.id = IdEmpty

\* C23: whatever other calls are in flight, when the synthetic initialize of a
\* recovery is answered 2xx with the session header S, the resend of that
\* recovery carries Mcp-Session-Id = S.
C23_ResendUsesNewSession ==
    [][\A n \in DOMAIN tasks :
          (InitializeSucceeds(n) /\ Truthy(tasks[n].sessionHeader))
            => /\ tasks'[n].kind = "resend"
               /\ tasks'[n].headers["Mcp-Session-Id"] = tasks[n].sessionHeader]_vars

\* C24: in the legacy bridge every error written for a message because of a
\* non-2xx status or a network error carries the id of the message, whatever
\* it is, 0 and "" included, and null only when the message has no id.
C24_LegacyIdEcho ==
    \A i \in DOMAIN out :
        (out[i].type = "error" /\ out[i].by \in {"end", "error"})
          => out[i].id = IF tasks[out[i].line].req.id = Undefined
                         THEN Null
                         ELSE tasks[out[i].line].req.id

\* C25: in every reachable state isInitialized is true exactly when a session
\* id is held, and what is held is one session id or none.
C25_InitializedDerived ==
    /\ isInitialized <=> sessionId # Null
    /\ sessionId \in {Null} \cup (SessionHeaders \ {Undefined, ""})

\* a session id was held and a 404 has cleared it: the flag is false again
C25_Witness ==
    /\ sessionId = Null /\ ~isInitialized
    /\ \E n \in DOMAIN tasks : tasks[n].kind = "init" /\ tasks[n].st = "sent"

\* C26 as claimed: the 404 answer to a request that was sent with the session id S clears
\* the held session id only when the held one is still S: an id stored by a
\* later initialize is not cleared by the late 404 of a request sent under an
\* older id.
C26_NoStaleInvalidation ==
    [][\A n \in DOMAIN tasks :
          (/\ Ends(n)
           /\ tasks[n].status = 404
           /\ tasks[n].headers["Mcp-Session-Id"] # Undefined
           /\ sessionId # Null /\ sessionId' = Null)
            => sessionId = tasks[n].headers["Mcp-Session-Id"]]_vars

\* this step is the 'end' event of a 404 answer to a call of line n that is no
\* initialize
NotFoundEnds(n) ==
    /\ Ends(n)
    /\ tasks[n].st = "headers" /\ tasks[n].status = 404
    /\ Sent(tasks[n]).method # "initialize"

\* C26 amended: the 404 answer to a request that is no initialize clears the
\* session id that is held when the answer has ended, whichever session id the
\* request was sent with, and starts the recovery; nothing else clears it.
C26_UnconditionalInvalidation ==
    [][/\ \A n \in DOMAIN tasks :
             (NotFoundEnds(n) /\ sessionId # Null)
               => /\ sessionId' = Null /\ ~isInitialized'
                  /\ tasks'[n].kind = "init" /\ tasks'[n].st = "sent"
       /\ (sessionId # Null /\ sessionId' = Null)
            => \E n \in DOMAIN tasks : NotFoundEnds(n)]_vars

\* line 1 obtained S1, the call of line 2 was sent with S1, the initialize of
\* line 3 stored S2, and the 404 of line 2 has cleared it
C26_Witness ==
    /\ Len(tasks) = 3
    /\ tasks[1].req.method = "initialize"
    /\ tasks[2].osid = "S1" /\ tasks[2].kind = "init" /\ tasks[2].ninit = 1
    /\ tasks[3].req.method = "initialize"
    /\ tasks[3].st = "headers" /\ tasks[3].sessionHeader = "S2"
    /\ ev.op = "end" /\ ev.line = 2
    /\ sessionId = Null

\* C27: with several requests in flight, the 'end' event of a 2xx answer
\* appends its output lines as one block after everything written before: the
\* lines of the body that parse, each whole and in body order, with no line of
\* another answer and no error reply among them; every step writes for one
\* input line only and leaves the lines written before as they are.
C27_ContiguousPayload ==
    [][/\ Len(out') >= Len(out) /\ SubSeq(out', 1, Len(out)) = out
       /\ \A i, j \in DOMAIN Written : Written[i].line = Written[j].line
       /\ \A n \in DOMAIN tasks :
             (Ends(n) /\ IsSuccess(tasks[n].status))
               => /\ Len(Written) = Len(ParsableLines(ev'.data))
                  /\ \A i \in DOMAIN Written :
                         Written[i] = PayloadLine(ParsableLines(ev'.data)[i], n, tasks[n].kind)]_vars

\* the answer of one line has written two lines of a three-line body while the
\* answer of the other line is being received
C27_Witness ==
    \E n, m \in DOMAIN tasks :
        /\ n # m
        /\ ev.op = "end" /\ ev.line = n
        /\ Len(Split(Trim(ev.data))) = 3
        /\ tasks[m].st = "headers"
        /\ Len(out) >= 2
        /\ out[Len(out) - 1] = PayloadLine(ParsableLines(ev.data)[1], n, "orig")
        /\ out[Len(out)] = PayloadLine(ParsableLines(ev.data)[2], n, "orig")

====
